---- MODULE Spec2Model ----
(***************************************************************************)
(* Model of Math::ContinuedFraction (continued_fraction.h / .cpp).          *)
(*                                                                         *)
(* One ContinuedFraction object is followed through its public operations. *)
(* A constructor or static factory replaces the object (value semantics,   *)
(* defaulted copy assignment).  `call` records the last operation and its  *)
(* arguments, `ret` what it returned or threw.                              *)
(*                                                                         *)
(* double is modelled as an exact reduced rational <<num, den>>, den > 0;  *)
(* std::string as a sequence of one-character strings; size_t arithmetic   *)
(* wraps modulo SizeMod.                                                   *)
(*                                                                         *)
(* Spec follows the object from call to call, normalize() being one        *)
(* function of the sequence.  NormSpec follows one run of normalize()       *)
(* statement by statement: `pc` is the position inside it ("idle" between  *)
(* calls) and `loop_i` the loop variable i of its for loop.                *)
(***************************************************************************)
EXTENDS Integers, Sequences, FiniteSets, TLC

VARIABLES coefficients_, is_finite_, is_periodic_, cached_value_, value_cached_,
          call, ret, pc, loop_i

fields == <<coefficients_, is_finite_, is_periodic_, cached_value_, value_cached_>>
position == <<pc, loop_i>>
vars == <<coefficients_, is_finite_, is_periodic_, cached_value_, value_cached_,
          call, ret, pc, loop_i>>

(* ------------------------------ bounds --------------------------------- *)

\* input coefficients are drawn from -MaxCoef..MaxCoef
MaxCoef == 1
\* longest input coefficient list, and longest sequence add_coefficient grows
MaxLen == 3
\* add_coefficient is taken only while every stored magnitude stays <= MaxAbs
MaxAbs == 3
\* largest convergent index asked for
MaxN == 3
\* from_rational arguments are drawn from -MaxRat..MaxRat
MaxRat == 5
\* sqrt_continued_fraction radicands are drawn from 0..MaxRadicand
MaxRadicand == 8
\* max_terms of the constant generators is drawn from 0..MaxTerms
MaxTerms == 4

CoefRange == (0 - MaxCoef)..MaxCoef

\* size_t wraps modulo 2^64 in the build; every index of the model is far
\* below the modulus, so a narrower modulus that TLC can represent gives the
\* same wrap-around at 0 - 1 and (0 - 1) + 1
SizeMod == 2^30

RECURSIVE ListsOfLen(_)
ListsOfLen(k) ==
    IF k = 0 THEN {<<>>}
    ELSE {Append(l, v) : l \in ListsOfLen(k - 1), v \in CoefRange}

\* every std::vector<long long> of at most k elements
ListsUpTo(k) == UNION {ListsOfLen(j) : j \in 0..k}

\* the list of example_creation (main.cpp)
PiList == <<3, 7, 15, 1, 292>>

\* lists a constructor is given: the small ones and some longer ones
ListInputs ==
    ListsUpTo(MaxLen)
    \cup {PiList, <<1, 1, 2>>, <<5, 2, 1, -2>>, <<2, 3, 1, -2, 5>>, <<1, 2, 3>>}

\* lists set_coefficients is given on an object that exists already
SetInputs == {<<>>, <<0>>, <<1, 1, 2>>, <<2, -1, 1, 1>>}

(* --------------------------- Coefficient ------------------------------- *)

Abs(x) == IF x < 0 THEN 0 - x ELSE x

\* Coefficient(val, neg, periodic)
Coefficient(val, neg, periodic) ==
    [value |-> Abs(val), is_negative |-> (val < 0 \/ neg),
     is_periodic_marker |-> periodic]

signed_value(c) == IF c.is_negative THEN 0 - c.value ELSE c.value

\* Coefficient::operator==
CoefficientEq(c, d) ==
    /\ signed_value(c) = signed_value(d)
    /\ c.is_periodic_marker = d.is_periodic_marker

\* coefficients_.emplace_back(c) for each c of a std::vector<long long>
Wrap(coeffs) == [k \in 1..Len(coeffs) |-> Coefficient(coeffs[k], FALSE, FALSE)]

\* ContinuedFraction::operator== on two coefficient sequences
Equal(s, t) ==
    /\ Len(s) = Len(t)
    /\ \A k \in 1..Len(s) : CoefficientEq(s[k], t[k])

\* get_coefficients()
get_coefficients(s) == [k \in 1..Len(s) |-> signed_value(s[k])]

(* ----------------------------- normalize ------------------------------- *)

\* std::remove_if over [begin()+1, end()) followed by erase
RemoveZeros(s) ==
    IF Len(s) > 1
    THEN <<s[1]>> \o SelectSeq(Tail(s), LAMBDA c : c.value # 0)
    ELSE s

\* --i and ++i on a size_t
SizeDec(i) == (i + SizeMod - 1) % SizeMod
SizeInc(i) == (i + 1) % SizeMod

\* the condition under which coefficients_[i + 1] is merged away
IsMergeOne(c) == c.value = 1 /\ ~c.is_negative /\ ~c.is_periodic_marker

MergeValue_plus_one(a, b) == a + 1
\* new_val of the merge
MergeValue(a, b) == a + b

MergeAt_erase_one(s, i) ==
    [k \in 1..(Len(s) - 1) |->
        IF k < i + 1 THEN s[k]
        ELSE IF k = i + 1
             THEN Coefficient(MergeValue(signed_value(s[i + 1]),
                                         signed_value(s[i + 3])), FALSE, FALSE)
             ELSE s[k + 1]]
\* the body of the if: coefficients_[i] = Coefficient(new_val), then the erase
\* of coefficients_[i + 1] and coefficients_[i + 2]; i is 0-based
MergeAt(s, i) ==
    LET new_val == MergeValue(signed_value(s[i + 1]), signed_value(s[i + 3]))
    IN  [k \in 1..(Len(s) - 2) |->
            IF k < i + 1 THEN s[k]
            ELSE IF k = i + 1
                 THEN Coefficient(new_val, FALSE, FALSE)
                 ELSE s[k + 2]]

\* the for loop of normalize(); i is the 0-based loop index
RECURSIVE MergeLoop(_, _)
MergeLoop(s, i) ==
    IF ~(i + 2 < Len(s)) THEN s
    ELSE IF IsMergeOne(s[i + 2])
         THEN MergeLoop(MergeAt(s, i), SizeInc(SizeDec(i)))
         ELSE MergeLoop(s, SizeInc(i))

\* the coefficient sequence normalize() leaves
NormalizeSeq(s) == MergeLoop(RemoveZeros(s), 0)

HasMarker_negated(s) == \E k \in 1..Len(s) : ~s[k].is_periodic_marker
\* update_flags(): std::any_of over is_periodic_marker
HasMarker(s) == \E k \in 1..Len(s) : s[k].is_periodic_marker

\* number of stored coefficients that carry the marker
MarkerCount(s) == Cardinality({k \in 1..Len(s) : s[k].is_periodic_marker})

\* double 0.0
Zero == <<0, 1>>

\* an object: the five data members
Object(coeffs, finite, periodic, cached, valid) ==
    [coefficients_ |-> coeffs, is_finite_ |-> finite, is_periodic_ |-> periodic,
     cached_value_ |-> cached, value_cached_ |-> valid]

\* the object after normalize() has run on the coefficient sequence s:
\* the merge pass, update_flags() and invalidate_cache()
normalize(s) ==
    LET t == NormalizeSeq(s)
    IN  Object(t, ~HasMarker(t), HasMarker(t), Zero, FALSE)

(* ------------------------- numeric evaluator --------------------------- *)

\* 1.0 / value for a non-zero value
Recip(v) == IF v[1] < 0 THEN <<0 - v[2], 0 - v[1]>> ELSE <<v[2], v[1]>>

\* static_cast<double>(sv) + 1.0 / value; the sum of an integer and a reduced
\* fraction is reduced
AddRecip(sv, v) == LET r == Recip(v) IN <<sv * r[2] + r[1], r[2]>>

\* the reverse-iterator loop of to_double(); k is the 1-based position of *it
RECURSIVE Fold(_, _, _)
Fold(s, k, value) ==
    IF k = 0 THEN value
    ELSE LET sv == signed_value(s[k])
         IN  Fold(s, k - 1, IF value[1] = 0 THEN <<sv, 1>> ELSE AddRecip(sv, value))

\* the value to_double() computes when the cache is not valid
Evaluate(s) == IF Len(s) = 0 THEN Zero ELSE Fold(s, Len(s), Zero)

(* ------------------------- convergent calculator ----------------------- *)

\* what a read outside the stored sequence may yield
Garbage == {0, 1}

\* coefficients_[idx].signed_value(); g stands for the value an out-of-bounds
\* read produces
At(s, idx, g) == IF idx < Len(s) THEN signed_value(s[idx + 1]) ELSE g

\* the for loop of compute_convergent, i = 2..n
RECURSIVE ConvLoop(_, _, _, _, _, _, _, _)
ConvLoop(s, g, i, n, prev_num, prev_den, curr_num, curr_den) ==
    IF i > n THEN <<curr_num, curr_den>>
    ELSE LET coeff == At(s, i % Len(s), g)
         IN  ConvLoop(s, g, i + 1, n, curr_num, curr_den,
                      coeff * curr_num + prev_num, coeff * curr_den + prev_den)

\* the pair compute_convergent(n) returns (size() > 0, or n < 2)
compute_convergent(s, n, g) ==
    IF n = 0 THEN <<At(s, 0, g), 1>>
    ELSE ConvLoop(s, g, 2, n, At(s, 0, g), 1,
                  At(s, 0, g) * At(s, 1, g) + 1, At(s, 1, g))

\* the indices compute_convergent(n) passes to coefficients_[...]
ConvReads(s, n) ==
    IF n = 0 THEN {0}
    ELSE {0, 1} \cup (IF Len(s) = 0 THEN {} ELSE {i % Len(s) : i \in 2..n})

\* i % coefficients_.size() with size() == 0 is evaluated
ModByZero(s, n) == Len(s) = 0 /\ n >= 2

\* compute_convergent(n) leaves defined behaviour
ConvUndefined(s, n) == ModByZero(s, n) \/ \E r \in ConvReads(s, n) : r >= Len(s)

OutOfRange_off_by_one(s, n, finite) == n > Len(s) /\ finite
\* the guard of convergent(n)
OutOfRange(s, n, finite) == n >= Len(s) /\ finite

\* the recurrence p_-1 = 1, p_0 = a0, p_i = a_i p_(i-1) + p_(i-2) (same for q
\* from 0, 1) over a plain integer list a, 1-based, up to index n (0-based)
RECURSIVE Recurrence(_, _)
Recurrence(a, n) ==
    IF n = 0 THEN <<a[1], 1>>
    ELSE IF n = 1 THEN <<a[2] * a[1] + 1, a[2]>>
    ELSE LET c == Recurrence(a, n - 1)
             b == Recurrence(a, n - 2)
         IN  <<a[n + 1] * c[1] + b[1], a[n + 1] * c[2] + b[2]>>

(* ------------------------------ factories ------------------------------ *)

\* C++ integer division truncates toward zero; % takes the dividend's sign
TruncDiv(n, d) ==
    LET q == Abs(n) \div Abs(d)
    IN  IF (n < 0) = (d < 0) THEN q ELSE 0 - q
TruncMod(n, d) == n - d * TruncDiv(n, d)

RECURSIVE Euclid_stop_early(_, _, _)
Euclid_stop_early(n, d, coeffs) ==
    IF d = 0 \/ TruncMod(n, d) = 0 THEN coeffs
    ELSE Euclid_stop_early(d, TruncMod(n, d), Append(coeffs, TruncDiv(n, d)))

\* the while loop of from_rational
RECURSIVE Euclid(_, _, _)
Euclid(n, d, coeffs) ==
    IF d = 0 THEN coeffs
    ELSE Euclid(d, TruncMod(n, d), Append(coeffs, TruncDiv(n, d)))

\* gcd(a, b) of the header
RECURSIVE gcd(_, _)
gcd(a, b) == IF b = 0 THEN Abs(a) ELSE gcd(b, TruncMod(a, b))

PeriodicPart_mark_all(periodic) ==
    [k \in 1..Len(periodic) |-> Coefficient(periodic[k], FALSE, TRUE)]
\* the coefficients create_periodic appends for the periodic part
PeriodicPart(periodic) ==
    [k \in 1..Len(periodic) |-> Coefficient(periodic[k], FALSE, k = 1)]

\* the vector create_periodic assigns to cf.coefficients_ before normalize()
PeriodicCoeffs(non_periodic, periodic) == Wrap(non_periodic) \o PeriodicPart(periodic)

(* ------------------------ textual serializer --------------------------- *)

DigitChar == <<"0", "1", "2", "3", "4", "5", "6", "7", "8", "9">>

\* decimal digits of a non-negative integer, as operator<<(long long) writes
RECURSIVE Digits(_)
Digits(v) ==
    IF v < 10 THEN <<DigitChar[v + 1]>>
    ELSE Digits(v \div 10) \o <<DigitChar[(v % 10) + 1]>>

\* oss << signed_value()
Format(v) == IF v < 0 THEN <<"-">> \o Digits(0 - v) ELSE Digits(v)

\* the for loop of to_string(), from the 1-based position k on
RECURSIVE StringTail(_, _)
StringTail(s, k) ==
    IF k > Len(s) THEN <<>>
    ELSE (IF s[k].is_periodic_marker THEN <<";", " ", "(">> ELSE <<";", " ">>)
         \o Format(signed_value(s[k])) \o StringTail(s, k + 1)

\* to_string() of an object with coefficients s and flag is_periodic_ = periodic
to_string(s, periodic) ==
    IF Len(s) = 0 THEN <<"[", "0", "]">>
    ELSE <<"[">> \o Format(signed_value(s[1])) \o StringTail(s, 2)
         \o (IF periodic THEN <<")", "]">> ELSE <<"]">>)

(* ------------------------------- parser -------------------------------- *)

\* std::regex_match(str, match, R"(^\[([^\[\]]+)\]$)")
RegexMatch(str) ==
    /\ Len(str) >= 3
    /\ str[1] = "["
    /\ str[Len(str)] = "]"
    /\ \A k \in 2..(Len(str) - 1) : str[k] \notin {"[", "]"}

\* match[1]
Content(str) == SubSeq(str, 2, Len(str) - 1)

IsSpace(ch) == ch = " "
IsDigit(ch) == \E d \in 1..10 : DigitChar[d] = ch
DigitVal(ch) == (CHOOSE d \in 1..10 : DigitChar[d] = ch) - 1

\* std::istringstream: pos is the 1-based position of the next character,
\* eof and fail are eofbit and failbit
NewStream == [pos |-> 1, eof |-> FALSE, fail |-> FALSE]
Good(st) == ~st.eof /\ ~st.fail

\* the whitespace skip of the stream sentry
RECURSIVE SkipWs(_, _)
SkipWs(c, pos) ==
    IF pos <= Len(c) /\ IsSpace(c[pos]) THEN SkipWs(c, pos + 1) ELSE pos

\* the digits num_get accumulates from pos on: <<value, next position>>
RECURSIVE ReadDigits(_, _, _)
ReadDigits(c, pos, acc) ==
    IF pos <= Len(c) /\ IsDigit(c[pos])
    THEN ReadDigits(c, pos + 1, acc * 10 + DigitVal(c[pos]))
    ELSE <<acc, pos>>

\* iss >> coeff: [st |-> stream afterwards, coeff |-> the variable afterwards].
\* A failed sentry leaves coeff alone; a failed conversion stores 0.
ReadInt(c, st, coeff) ==
    IF ~Good(st) THEN [st |-> [st EXCEPT !.fail = TRUE], coeff |-> coeff]
    ELSE LET p == SkipWs(c, st.pos)
         IN  IF p > Len(c)
             THEN [st |-> [pos |-> p, eof |-> TRUE, fail |-> TRUE], coeff |-> coeff]
             ELSE LET signed == c[p] \in {"-", "+"}
                      q == IF signed THEN p + 1 ELSE p
                      d == ReadDigits(c, q, 0)
                  IN  IF d[2] = q
                      THEN [st |-> [pos |-> q, eof |-> q > Len(c), fail |-> TRUE],
                            coeff |-> 0]
                      ELSE [st |-> [pos |-> d[2], eof |-> d[2] > Len(c),
                                    fail |-> FALSE],
                            coeff |-> IF c[p] = "-" THEN 0 - d[1] ELSE d[1]]

\* iss >> ch: [st |-> stream afterwards, ch |-> the character read]
ReadChar(c, st) ==
    IF ~Good(st) THEN [st |-> [st EXCEPT !.fail = TRUE], ch |-> ""]
    ELSE LET p == SkipWs(c, st.pos)
         IN  IF p > Len(c)
             THEN [st |-> [pos |-> p, eof |-> TRUE, fail |-> TRUE], ch |-> ""]
             ELSE [st |-> [pos |-> p + 1, eof |-> FALSE, fail |-> FALSE],
                   ch |-> c[p]]

\* while (iss >> ch && ch == ';') { iss >> coeff; emplace_back(coeff); }
RECURSIVE ParseRest(_, _, _, _)
ParseRest(c, st, coeff, acc) ==
    LET r == ReadChar(c, st)
    IN  IF r.st.fail \/ r.ch # ";" THEN acc
        ELSE LET n == ReadInt(c, r.st, coeff)
             IN  ParseRest(c, n.st, n.coeff, Append(acc, n.coeff))

\* parse_string throws std::invalid_argument
ParseThrows(str) ==
    \/ ~RegexMatch(str)
    \/ ReadInt(Content(str), NewStream, 0).st.fail

\* the long long values parse_string emplaces before normalize()
ParseValues(str) ==
    LET first == ReadInt(Content(str), NewStream, 0)
    IN  ParseRest(Content(str), first.st, first.coeff, <<first.coeff>>)

(* ------------------------------- inputs -------------------------------- *)

\* "[a0" then first before a1 and sep before every later coefficient, then "]"
RECURSIVE RenderTail(_, _, _)
RenderTail(l, k, sep) ==
    IF k > Len(l) THEN <<>>
    ELSE sep \o Format(l[k]) \o RenderTail(l, k + 1, sep)

Render(l, first, sep) ==
    <<"[">> \o Format(l[1])
    \o (IF Len(l) >= 2 THEN first \o Format(l[2]) ELSE <<>>)
    \o RenderTail(l, 3, sep) \o <<"]">>

\* the notation to_string() writes: "[a0; a1; a2]"
WrittenText(l) == Render(l, <<";", " ">>, <<";", " ">>)
\* the notation of the header and of main.cpp: "[a0; a1, a2]"
DocText(l) == Render(l, <<";", " ">>, <<",", " ">>)

\* texts parse_string rejects or reads in an unusual way
OddTexts ==
    { <<>>,
      <<"1", ";", " ", "2">>,
      <<"[", "]">>,
      <<"[", " ", "]">>,
      <<"[", "x", "]">>,
      <<"[", "[", "1", "]", "]">>,
      <<"[", "1", ";", "]">>,
      <<"[", "-", "]">>,
      <<"[", "1", "]", "]">>,
      <<"[", "2", ";", " ", "(", "1", ";", " ", "2", ")", "]">> }

\* the texts of the coefficient lists of at most k elements, and the odd ones
TextsUpTo(k) ==
    {WrittenText(l) : l \in ListsUpTo(k) \ {<<>>}}
    \cup {DocText(l) : l \in ListsUpTo(k) \ {<<>>}}
    \cup OddTexts

\* texts parse_string is given on an object that exists already, besides the
\* object's own to_string()
ParseInputs ==
    OddTexts \cup {DocText(<<1, 2, 3>>), WrittenText(<<1, 2, 3>>),
                   WrittenText(<<-2, 1, 2>>), WrittenText(<<0>>)}

\* create_periodic arguments: both parts together at most MaxLen long
PeriodicInputs ==
    {pr \in ListsUpTo(MaxLen) \X ListsUpTo(MaxLen) : Len(pr[1]) + Len(pr[2]) <= MaxLen}

RatRange == (0 - MaxRat)..MaxRat

(* --------------------------- call bookkeeping -------------------------- *)

Call(name, list, list2, n, m, str) ==
    [name |-> name, list |-> list, list2 |-> list2, n |-> n, m |-> m, str |-> str]

NoRet == [thrown |-> "none", pair |-> <<0, 0>>, value |-> Zero, reads |-> {},
          str |-> <<>>]

Threw(what) == [NoRet EXCEPT !.thrown = what]

\* the object followed becomes obj
Assign(obj) ==
    /\ coefficients_' = obj.coefficients_
    /\ is_finite_' = obj.is_finite_
    /\ is_periodic_' = obj.is_periodic_
    /\ cached_value_' = obj.cached_value_
    /\ value_cached_' = obj.value_cached_

Made(obj, c) == [obj |-> obj, call |-> c]

(* ---------------------- constructors and factories --------------------- *)

\* ContinuedFraction()
ctor_default ==
    Made(Object(<<Coefficient(0, FALSE, FALSE)>>, TRUE, FALSE, Zero, FALSE),
         Call("ctor_default", <<>>, <<>>, 0, 0, <<>>))

\* ContinuedFraction(long long value)
ctor_int(v) ==
    Made(Object(<<Coefficient(v, FALSE, FALSE)>>, TRUE, FALSE, <<v, 1>>, TRUE),
         Call("ctor_int", <<>>, <<>>, v, 0, <<>>))

\* ContinuedFraction(const std::vector<long long>&)
ctor_list(coeffs) ==
    Made(normalize(Wrap(coeffs)), Call("ctor_list", coeffs, <<>>, 0, 0, <<>>))

\* ContinuedFraction(const std::string&), for a text parse_string accepts
\* (when it throws, no object comes to exist)
ctor_string(str) ==
    Made(normalize(Wrap(ParseValues(str))),
         Call("ctor_string", <<>>, <<>>, 0, 0, str))

\* from_rational(numerator, denominator), denominator # 0 (it throws
\* std::invalid_argument otherwise and no object comes to exist)
from_rational(numerator, denominator) ==
    Made(normalize(Wrap(Euclid(numerator, denominator, <<>>))),
         Call("from_rational", <<>>, <<>>, numerator, denominator, <<>>))

\* create_periodic(non_periodic, periodic)
create_periodic(non_periodic, periodic) ==
    Made(normalize(PeriodicCoeffs(non_periodic, periodic)),
         Call("create_periodic", non_periodic, periodic, 0, 0, <<>>))

\* static_cast<long long>(std::sqrt(n)) for n >= 0
ISqrt(n) == CHOOSE r \in 0..n : r * r <= n /\ (r + 1) * (r + 1) > n

\* the for loop of sqrt_continued_fraction: coeffs when it is left
RECURSIVE SqrtLoop(_, _, _, _, _, _, _, _)
SqrtLoop(n, a0, m, d, a, i, max_terms, coeffs) ==
    IF ~(i < max_terms) THEN coeffs
    ELSE LET m2 == d * a - m
             d2 == TruncDiv(n - m2 * m2, d)
             a2 == TruncDiv(a0 + m2, d2)
         IN  IF a2 = 2 * a0 THEN Append(coeffs, a2)
             ELSE SqrtLoop(n, a0, m2, d2, a2, i + 1, max_terms, Append(coeffs, a2))

\* the coefficients sqrt_continued_fraction generates for a non-square n
SqrtCoeffs(n, max_terms) ==
    SqrtLoop(n, ISqrt(n), 0, 1, ISqrt(n), 0, max_terms, <<ISqrt(n)>>)

\* sqrt_continued_fraction(n, max_terms), n >= 0 (it throws
\* std::invalid_argument otherwise)
sqrt_continued_fraction(n, max_terms) ==
    Made(IF ISqrt(n) * ISqrt(n) = n
         THEN ctor_int(ISqrt(n)).obj
         ELSE create_periodic(<<ISqrt(n)>>, Tail(SqrtCoeffs(n, max_terms))).obj,
         Call("sqrt_continued_fraction", <<>>, <<>>, n, max_terms, <<>>))

\* the vector e_continued_fraction fills
ECoeffs(max_terms) ==
    <<2>> \o [i \in 1..(max_terms - 1) |->
                IF i % 3 = 2 THEN 2 * ((i + 1) \div 3) ELSE 1]

\* e_continued_fraction(max_terms)
e_continued_fraction(max_terms) ==
    Made(ctor_list(ECoeffs(max_terms)).obj,
         Call("e_continued_fraction", <<>>, <<>>, max_terms, 0, <<>>))

\* the calls of main.cpp on top of the small arguments
SqrtInputs ==
    ((0..MaxRadicand) \X (0..MaxTerms)) \cup {<<2, 10>>, <<3, 10>>, <<13, 15>>}
EInputs == (0..MaxTerms) \cup {10}
RatInputs ==
    (RatRange \X (RatRange \ {0})) \cup {<<355, 113>>}
StringInputs == {u \in TextsUpTo(MaxLen) \cup ParseInputs : ~ParseThrows(u)}

\* every way the object followed can have been constructed
Constructions ==
    {ctor_default}
    \cup {ctor_int(v) : v \in CoefRange}
    \cup {ctor_list(l) : l \in ListInputs}
    \cup {ctor_string(t) : t \in StringInputs}
    \cup {from_rational(pq[1], pq[2]) : pq \in RatInputs}
    \cup {create_periodic(pr[1], pr[2]) : pr \in PeriodicInputs}
    \cup {sqrt_continued_fraction(nt[1], nt[2]) : nt \in SqrtInputs}
    \cup {e_continued_fraction(t) : t \in EInputs}

Init ==
    \E c \in Constructions :
        /\ coefficients_ = c.obj.coefficients_
        /\ is_finite_ = c.obj.is_finite_
        /\ is_periodic_ = c.obj.is_periodic_
        /\ cached_value_ = c.obj.cached_value_
        /\ value_cached_ = c.obj.value_cached_
        /\ call = c.call
        /\ ret = NoRet
        /\ pc = "idle"
        /\ loop_i = 0

(* --------------------------- member operations ------------------------- *)

set_coefficients(coeffs) ==
    /\ Assign(normalize(Wrap(coeffs)))
    /\ UNCHANGED position
    /\ call' = Call("set_coefficients", coeffs, <<>>, 0, 0, <<>>)
    /\ ret' = NoRet

add_coefficient(coeff) ==
    LET after == normalize(Append(coefficients_, Coefficient(coeff, FALSE, FALSE)))
    IN  /\ Len(coefficients_) < MaxLen
        /\ \A k \in 1..Len(after.coefficients_) :
              after.coefficients_[k].value <= MaxAbs
        /\ Assign(after)
        /\ UNCHANGED position
        /\ call' = Call("add_coefficient", <<>>, <<>>, coeff, 0, <<>>)
        /\ ret' = NoRet

to_double ==
    /\ UNCHANGED position
    /\ call' = Call("to_double", <<>>, <<>>, 0, 0, <<>>)
    /\ UNCHANGED <<coefficients_, is_finite_, is_periodic_>>
    /\ IF value_cached_
       THEN /\ UNCHANGED <<cached_value_, value_cached_>>
            /\ ret' = [NoRet EXCEPT !.value = cached_value_]
       ELSE /\ cached_value_' = Evaluate(coefficients_)
            /\ value_cached_' = TRUE
            /\ ret' = [NoRet EXCEPT !.value = Evaluate(coefficients_)]

\* convergent(n); compute_convergent on a sequence too short for its reads is
\* undefined behaviour: the call crashes or goes on with some value read
convergent(n) ==
    /\ UNCHANGED position
    /\ call' = Call("convergent", <<>>, <<>>, n, 0, <<>>)
    /\ UNCHANGED fields
    /\ IF OutOfRange(coefficients_, n, is_finite_)
       THEN ret' = Threw("out_of_range")
       ELSE IF ConvUndefined(coefficients_, n)
       THEN \/ ret' = [Threw("crash") EXCEPT !.reads = ConvReads(coefficients_, n)]
            \/ /\ ~ModByZero(coefficients_, n)
               /\ \E g \in Garbage :
                     ret' = [NoRet EXCEPT
                               !.pair = compute_convergent(coefficients_, n, g),
                               !.reads = ConvReads(coefficients_, n)]
       ELSE ret' = [NoRet EXCEPT
                      !.pair = compute_convergent(coefficients_, n, 0),
                      !.reads = ConvReads(coefficients_, n)]

simplify ==
    /\ Assign(normalize(coefficients_))
    /\ UNCHANGED position
    /\ call' = Call("simplify", <<>>, <<>>, 0, 0, <<>>)
    /\ ret' = NoRet

clear ==
    /\ Assign(normalize(<<Coefficient(0, FALSE, FALSE)>>))
    /\ UNCHANGED position
    /\ call' = Call("clear", <<>>, <<>>, 0, 0, <<>>)
    /\ ret' = NoRet

parse_string_rollback(str) ==
    /\ UNCHANGED position
    /\ call' = Call("parse_string", <<>>, <<>>, 0, 0, str)
    /\ IF ParseThrows(str)
       THEN /\ UNCHANGED fields
            /\ ret' = Threw("invalid_argument")
       ELSE /\ Assign(normalize(Wrap(ParseValues(str))))
            /\ ret' = NoRet

\* parse_string on the existing object (also reached through operator>>)
parse_string(str) ==
    /\ UNCHANGED position
    /\ call' = Call("parse_string", <<>>, <<>>, 0, 0, str)
    /\ IF ParseThrows(str)
       THEN /\ coefficients_' = <<>>
            /\ UNCHANGED <<is_finite_, is_periodic_, cached_value_, value_cached_>>
            /\ ret' = Threw("invalid_argument")
       ELSE /\ Assign(normalize(Wrap(ParseValues(str))))
            /\ ret' = NoRet

write_string ==
    /\ UNCHANGED position
    /\ call' = Call("to_string", <<>>, <<>>, 0, 0, <<>>)
    /\ UNCHANGED fields
    /\ ret' = [NoRet EXCEPT !.str = to_string(coefficients_, is_periodic_)]

\* the defaulted copy constructor / copy assignment: the copy is followed
copy ==
    /\ UNCHANGED fields
    /\ UNCHANGED position
    /\ call' = Call("copy", <<>>, <<>>, 0, 0, <<>>)
    /\ ret' = NoRet

Next ==
    \/ \E l \in SetInputs : set_coefficients(l)
    \/ \E c \in CoefRange : add_coefficient(c)
    \/ to_double
    \/ \E n \in 0..MaxN : convergent(n)
    \/ simplify
    \/ clear
    \/ \E t \in ParseInputs \cup {to_string(coefficients_, is_periodic_)} :
          parse_string(t)
    \/ write_string
    \/ copy

Spec == Init /\ [][Next]_vars

(* ----------------------- normalize(), step by step --------------------- *)

\* normalize() is entered with the sequence its caller prepared: a list, or
\* create_periodic's non-periodic part followed by the marked periodic part
NormInit ==
    \E l \in ListInputs : \E m \in 0..Len(l) :
        /\ coefficients_ = PeriodicCoeffs(SubSeq(l, 1, m), SubSeq(l, m + 1, Len(l)))
        /\ is_finite_ = TRUE
        /\ is_periodic_ = FALSE
        /\ cached_value_ = Zero
        /\ value_cached_ = TRUE
        /\ call = Call("normalize", SubSeq(l, 1, m), SubSeq(l, m + 1, Len(l)),
                       0, 0, <<>>)
        /\ ret = NoRet
        /\ pc = "filter"
        /\ loop_i = 0

\* the remove_if / erase block, then the loop's size_t i = 0
remove_zeros ==
    /\ pc = "filter"
    /\ coefficients_' = RemoveZeros(coefficients_)
    /\ loop_i' = 0
    /\ pc' = "test"
    /\ UNCHANGED <<is_finite_, is_periodic_, cached_value_, value_cached_, call, ret>>

\* the loop condition i + 2 < coefficients_.size()
loop_test ==
    /\ pc = "test"
    /\ pc' = IF (loop_i + 2) % SizeMod < Len(coefficients_) THEN "body" ELSE "flags"
    /\ UNCHANGED <<fields, call, ret, loop_i>>

\* the loop body: the merge with its --i, or nothing
loop_body ==
    /\ pc = "body"
    /\ IF IsMergeOne(coefficients_[loop_i + 2])
       THEN /\ coefficients_' = MergeAt(coefficients_, loop_i)
            /\ loop_i' = SizeDec(loop_i)
       ELSE UNCHANGED <<coefficients_, loop_i>>
    /\ pc' = "incr"
    /\ UNCHANGED <<is_finite_, is_periodic_, cached_value_, value_cached_, call, ret>>

\* the loop's ++i
loop_incr ==
    /\ pc = "incr"
    /\ loop_i' = SizeInc(loop_i)
    /\ pc' = "test"
    /\ UNCHANGED <<fields, call, ret>>

\* update_flags() and invalidate_cache(), and the return
finish ==
    /\ pc = "flags"
    /\ is_periodic_' = HasMarker(coefficients_)
    /\ is_finite_' = ~HasMarker(coefficients_)
    /\ value_cached_' = FALSE
    /\ cached_value_' = Zero
    /\ pc' = "done"
    /\ UNCHANGED <<coefficients_, call, ret, loop_i>>

NormNext ==
    \/ remove_zeros
    \/ loop_test
    \/ loop_body
    \/ loop_incr
    \/ finish

\* the code is sequential: a statement that can run does run
NormSpec == NormInit /\ [][NormNext]_vars /\ WF_vars(NormNext)

\* the sequence normalize() was entered with
Entered == PeriodicCoeffs(call.list, call.list2)

\* the run ends with the object the function normalize(s) gives
NormalizeAgrees ==
    pc = "done"
    => Object(coefficients_, is_finite_, is_periodic_, cached_value_,
              value_cached_) = normalize(Entered)

(* ------------------------------- claims -------------------------------- *)

\* C1: in every reachable state the coefficient sequence is non-empty,
\* size() >= 1.
C1_NonEmpty == Len(coefficients_) >= 1

\* C2: in every reachable state is_periodic() is true exactly when some stored
\* coefficient carries the periodic marker, and is_finite() is its negation.
C2_FlagsMatchMarker ==
    /\ is_periodic_ <=> HasMarker(coefficients_)
    /\ is_finite_ <=> ~is_periodic_

\* C3: in every reachable state at most one stored coefficient carries the
\* periodic marker.
C3_AtMostOneMarker == MarkerCount(coefficients_) <= 1

\* a periodic fraction that add_coefficient has grown still has its one marker
C3_Witness ==
    /\ call.name = "add_coefficient"
    /\ Len(coefficients_) >= 3
    /\ MarkerCount(coefficients_) = 1

\* C4: in every reachable state a cache flagged valid holds the value the
\* evaluator computes from the current coefficient sequence.
C4_CacheCurrent == value_cached_ => cached_value_ = Evaluate(coefficients_)

\* C5: simplify() right after the list constructor or create_periodic leaves
\* the coefficient sequence (values and marker) and both flags unchanged.
C5_SimplifyIdempotent ==
    [][(call.name \in {"ctor_list", "create_periodic"} /\ call'.name = "simplify")
         => /\ coefficients_' = coefficients_
            /\ is_finite_' = is_finite_
            /\ is_periodic_' = is_periodic_]_vars

C7_PiConvergents ==
    [][(call.name = "ctor_list" /\ call.list = PiList /\ call'.name = "convergent")
         => /\ ret'.thrown = "none"
            /\ ret'.pair = Recurrence(PiList, call'.n)
            /\ call'.n = 2 => ret'.pair = <<333, 106>>
            /\ call'.n = 3 => ret'.pair = <<355, 113>>]_vars

\* C8: on a finite fraction convergent(n) with n >= size() throws out_of_range
\* before any coefficient is read, convergent(n) with n < size() does not
\* throw, and either way the object is unchanged.
C8_FiniteOutOfRange ==
    [][(call'.name = "convergent" /\ is_finite_)
         => /\ call'.n >= Len(coefficients_)
                 => (ret'.thrown = "out_of_range" /\ ret'.reads = {})
            /\ call'.n < Len(coefficients_) => ret'.thrown = "none"
            /\ fields' = fields]_vars

\* convergent(size()) on a finite fraction of two or more coefficients threw
C8_Witness ==
    /\ call.name = "convergent"
    /\ is_finite_
    /\ Len(coefficients_) >= 2
    /\ call.n = Len(coefficients_)
    /\ ret.thrown = "out_of_range"

\* C9: on a periodic fraction of any stored length >= 1, convergent(n) reads
\* only inside the stored sequence and returns.
C9_PeriodicReadsInside ==
    (call.name = "convergent" /\ is_periodic_ /\ HasMarker(coefficients_))
    => /\ ret.thrown = "none"
       /\ \A r \in ret.reads : r < Len(coefficients_)

\* C10: for coprime (p, q), q # 0, convergent(size() - 1) of from_rational(p, q)
\* is (p, q) or (-p, -q).
C10_RationalRoundTrip ==
    [][(call.name = "from_rational" /\ gcd(call.n, call.m) = 1
          /\ call'.name = "convergent" /\ call'.n = Len(coefficients_) - 1)
         => /\ ret'.thrown = "none"
            /\ \/ ret'.pair = <<call.n, call.m>>
               \/ ret'.pair = <<0 - call.n, 0 - call.m>>]_vars

\* C11 as stated: from_rational(355, 113).get_coefficients() is [3, 7, 15, 1].
C11_Original ==
    (call.name = "from_rational" /\ call.n = 355 /\ call.m = 113)
    => get_coefficients(coefficients_) = <<3, 7, 15, 1>>

\* C11 amended: from_rational(355, 113).get_coefficients() is [3, 7, 16].
C11_Quotients ==
    (call.name = "from_rational" /\ call.n = 355 /\ call.m = 113)
    => get_coefficients(coefficients_) = <<3, 7, 16>>

\* from_rational(355, 113) has been called and has left three coefficients
C11_Witness ==
    /\ call.name = "from_rational"
    /\ call.n = 355
    /\ call.m = 113
    /\ Len(coefficients_) = 3

\* C12: for n >= 0 not a perfect square and max_terms >= 1,
\* sqrt_continued_fraction(n, max_terms) is periodic and not finite, its
\* coefficient 0 is floor(sqrt(n)), and the generated coefficients follow it
\* as the periodic tail, the marker on the first of them.
C12_SqrtPeriodic ==
    (call.name = "sqrt_continued_fraction" /\ call.m >= 1
       /\ \A r \in 0..call.n : r * r # call.n)
    => /\ is_periodic_
       /\ ~is_finite_
       /\ Len(coefficients_) >= 2
       /\ \E a0 \in 0..call.n :
             /\ a0 * a0 <= call.n
             /\ (a0 + 1) * (a0 + 1) > call.n
             /\ signed_value(coefficients_[1]) = a0
       /\ ~coefficients_[1].is_periodic_marker
       /\ coefficients_[2].is_periodic_marker
       /\ get_coefficients(coefficients_) = SqrtCoeffs(call.n, call.m)

\* C13: for max_terms >= 1, e_continued_fraction(max_terms) has exactly
\* max_terms coefficients: 2, then at position i >= 1 the value 2 * (i + 1) / 3
\* when i mod 3 = 2 and 1 otherwise.
C13_EPattern ==
    (call.name = "e_continued_fraction" /\ call.n >= 1)
    => /\ Len(coefficients_) = call.n
       /\ \A k \in 1..Len(coefficients_) :
             signed_value(coefficients_[k]) =
                (IF k = 1 THEN 2
                 ELSE IF (k - 1) % 3 = 2 THEN (2 * k) \div 3 ELSE 1)

\* C14: the fraction constructed from the text "[a0; a1, a2, ..., ak]" is ==
\* the fraction constructed from the list {a0, ..., ak}; the one constructed
\* from "[1; 2, 3]" is != the one constructed from "[1; 2, 4]".
C14_TextEqualsList ==
    /\ \A l \in ListInputs \ {<<>>} :
          (call.name = "ctor_string" /\ call.str = DocText(l))
          => Equal(coefficients_, ctor_list(l).obj.coefficients_)
    /\ (call.name = "ctor_string" /\ call.str = DocText(<<1, 2, 3>>))
          => ~Equal(coefficients_, ctor_string(DocText(<<1, 2, 4>>)).obj.coefficients_)

C16_DigitChars == {"0", "1", "2", "3", "4", "5", "6", "7", "8", "9"}

\* str is one "[", a text without brackets, one "]"
C16_Wrapped(str) ==
    /\ Len(str) >= 2
    /\ str[1] = "["
    /\ str[Len(str)] = "]"
    /\ \A k \in 2..(Len(str) - 1) : str[k] \notin {"[", "]"}

\* the first token inside the brackets is an integer
C16_FirstReadable(str) ==
    LET inner == SubSeq(str, 2, Len(str) - 1)
        solid == {k \in 1..Len(inner) : inner[k] # " "}
    IN  /\ solid # {}
        /\ LET p == CHOOSE k \in solid : \A j \in solid : k <= j
           IN  \/ inner[p] \in C16_DigitChars
               \/ /\ inner[p] \in {"-", "+"}
                  /\ p < Len(inner)
                  /\ inner[p + 1] \in C16_DigitChars

\* C16: parse_string on a text that is not wrapped in one pair of brackets, or
\* whose first token inside them is no integer, throws invalid_argument and
\* leaves the coefficient sequence cleared whatever it held before.
C16_ParseFailureClears ==
    [][(call'.name = "parse_string"
          /\ (~C16_Wrapped(call'.str) \/ ~C16_FirstReadable(call'.str)))
         => /\ ret'.thrown = "invalid_argument"
            /\ coefficients_' = <<>>]_vars

\* parse_string threw on "[x]" and the sequence is gone
C16_Witness ==
    /\ call.name = "parse_string"
    /\ call.str = <<"[", "x", "]">>
    /\ ret.thrown = "invalid_argument"
    /\ coefficients_ = <<>>

\* C17: to_string() writes an opening parenthesis if and only if it writes a
\* closing one, wherever the marker sits.
C17_ParenthesesPaired ==
    call.name = "to_string"
    => ((\E k \in 1..Len(ret.str) : ret.str[k] = "(")
          <=> (\E k \in 1..Len(ret.str) : ret.str[k] = ")"))

\* C18: after the list constructor or set_coefficients has normalized any
\* integer list, no coefficient at index > 0 is zero.
C18_NoInteriorZero ==
    call.name \in {"ctor_list", "set_coefficients"}
    => \A k \in 2..Len(coefficients_) : signed_value(coefficients_[k]) # 0

\* C19: after the list constructor or set_coefficients has normalized any
\* integer list, no unmarked coefficient of signed value 1 is left at an
\* index i with 0 < i < size() - 1.
C19_NoInteriorOne ==
    call.name \in {"ctor_list", "set_coefficients"}
    => \A k \in 2..(Len(coefficients_) - 1) :
          ~(signed_value(coefficients_[k]) = 1
              /\ ~coefficients_[k].is_periodic_marker)

\* C20: after create_periodic with a non-empty periodic part of non-zero
\* elements, is_periodic() is true and a stored coefficient carries the marker.
C20_MarkerKept ==
    (call.name = "create_periodic" /\ Len(call.list2) >= 1
       /\ \A k \in 1..Len(call.list2) : call.list2[k] # 0)
    => (is_periodic_ /\ HasMarker(coefficients_))

\* C21: for every reachable finite fraction cf, the fraction constructed from
\* the text cf.to_string() is == cf.
C21_TextRoundTrip ==
    (is_finite_ /\ ~is_periodic_)
    => LET text == to_string(coefficients_, is_periodic_)
       IN  /\ ~ParseThrows(text)
           /\ Equal(ctor_string(text).obj.coefficients_, coefficients_)

====
